---- MODULE Spec2Model ----
(***************************************************************************)
(* Model of the FileManager repository: the on-disk tree under my_files,   *)
(* the MongoDB index of File and Folder documents, the single-generation   *)
(* backups under my_files/backups and the aes-256-ctr envelope codec.      *)
(*                                                                         *)
(* A path is a sequence of name tokens with "/" as separator token, taken  *)
(* relative to CONFIG.baseDir; a file content is a sequence of bytes.      *)
(***************************************************************************)
EXTENDS Integers, Sequences, FiniteSets, TLC

VARIABLES
    files,       \* disk: path -> bytes, for every regular file under baseDir
    dirs,        \* disk: the directories under baseDir (baseDir itself excluded)
    fileRecs,    \* File collection: _id -> document
    folderRecs,  \* Folder collection: _id -> document
    nextId,      \* the next ObjectId the store mints
    walk,        \* call stack of the running syncToDB (<<>> when none runs)
    ops,         \* number of commands the shell has accepted
    track,       \* what the operations so far did to a file (saveToDB: the bytes
                 \* it captured, per path)
    last         \* the operation that ran last: name, argument, outcome, prior state

vars == <<files, dirs, fileRecs, folderRecs, nextId, walk, ops, track, last>>

\* ------------------------------------------------------------------------
\* Bounds of the model
\* ------------------------------------------------------------------------
MaxLen == 2       \* longest file content, in bytes
MaxOps == 6       \* commands the shell accepts in one behaviour

\* ------------------------------------------------------------------------
\* Paths (path.join / path.dirname / path.basename / path.extname)
\* ------------------------------------------------------------------------
Sep == "/"
Root == <<>>
ExtTokens == {".txt", ".enc", ".bak"}

LastSep(p) ==
    LET S == {i \in 1..Len(p) : p[i] = Sep}
    IN  IF S = {} THEN 0 ELSE CHOOSE i \in S : \A j \in S : j <= i

Dirname(p) == IF LastSep(p) = 0 THEN Root ELSE SubSeq(p, 1, LastSep(p) - 1)

Basename(p) == SubSeq(p, LastSep(p) + 1, Len(p))

\* the segments of a path: the runs of tokens between separators
RECURSIVE Segments(_)
Segments(p) ==
    LET S == {i \in 1..Len(p) : p[i] = Sep}
    IN  IF p = <<>> THEN <<>>
        ELSE IF S = {} THEN <<p>>
        ELSE LET k == CHOOSE i \in S : \A j \in S : i <= j
             IN  <<SubSeq(p, 1, k - 1)>> \o Segments(SubSeq(p, k + 1, Len(p)))

\* path.normalize on segments: empty and "." segments go, ".." takes the
\* segment before it away, and stays when there is none to take (the path
\* then leaves the directory it is relative to)
RECURSIVE Collapse(_, _)
Collapse(segs, out) ==
    IF segs = <<>> THEN out
    ELSE IF Head(segs) = <<>> \/ Head(segs) = <<".">>
    THEN Collapse(Tail(segs), out)
    ELSE IF Head(segs) = <<"..">> /\ out # <<>> /\ out[Len(out)] # <<"..">>
    THEN Collapse(Tail(segs), SubSeq(out, 1, Len(out) - 1))
    ELSE Collapse(Tail(segs), Append(out, Head(segs)))

RECURSIVE Unsplit(_)
Unsplit(segs) ==
    IF segs = <<>> THEN <<>>
    ELSE IF Len(segs) = 1 THEN segs[1]
    ELSE segs[1] \o <<Sep>> \o Unsplit(Tail(segs))

\* a path with no ".", ".." or empty segment is its own normal form
Normal(p) ==
    \A i \in 1..Len(p) :
        /\ p[i] \notin {".", ".."}
        /\ p[i] = Sep => (1 < i /\ i < Len(p) /\ p[i + 1] # Sep)

Normalize(p) == IF Normal(p) THEN p ELSE Unsplit(Collapse(Segments(p), <<>>))

\* path.join(d, name): concatenate, then normalize
Join(d, name) == Normalize(IF d = Root THEN name ELSE d \o <<Sep>> \o name)

\* the directory that holds baseDir (__dirname), and the paths that are not
\* under baseDir
Up == <<"..">>
Outside(p) == p # <<>> /\ p[1] = ".."

\* path.extname: the last dot-suffix of the base name, "" when the base name
\* has none or is nothing but the suffix
Extname(p) ==
    LET b == Basename(p)
    IN  IF Len(b) > 1 /\ b[Len(b)] \in ExtTokens THEN b[Len(b)] ELSE ""

\* the suffix test made with String.includes
EndsWithOrIncludes(p, tok) == Len(p) > 0 /\ \E i \in 1..Len(p) : p[i] = tok

EndsWith(p, tok) == Len(p) > 0 /\ p[Len(p)] = tok

\* String.includes on sequences
Includes(data, text) ==
    \E i \in 1..(Len(data) - Len(text) + 1) : SubSeq(data, i, i + Len(text) - 1) = text

\* String.includes of a name for a pattern that lies within one name token:
\* "backups".includes("a") holds as "a.txt".includes("a") does
TokenIncludes(tok, pattern) == tok = pattern \/ (tok = "backups" /\ pattern = "a")
NameIncludes(name, pattern) == \E i \in 1..Len(name) : TokenIncludes(name[i], pattern)

resolve(filename) == Join(Root, filename)

BackupsName == <<"backups">>
backupDir == Join(Root, BackupsName)

resolveBackup(filename) == Join(backupDir, filename \o <<".bak">>)

\* ------------------------------------------------------------------------
\* Disk primitives (fs/promises)
\* ------------------------------------------------------------------------
IsFile(p) == p \in DOMAIN files
IsDir(p) == p = Root \/ p \in dirs
Accessible(p) == IsFile(p) \/ IsDir(p)

\* fs.writeFile / fs.appendFile / copyFile destination: the parent directory
\* must exist and the path must not be a directory
CanWrite(p) == IsDir(Dirname(p)) /\ ~IsDir(p)

Put(f, p, c) == [q \in DOMAIN f \cup {p} |-> IF q = p THEN c ELSE f[q]]
Drop(f, p) == [q \in DOMAIN f \ {p} |-> f[q]]

\* fs.mkdir(path, {recursive: true}): the directory and its missing parents
MkdirP(d) ==
    {SubSeq(d, 1, i) : i \in {j \in 1..Len(d) : j = Len(d) \/ d[j + 1] = Sep}}

\* fs.readdir(dir): the entries directly inside dir
Readdir(d) == {p \in DOMAIN files \cup dirs : Dirname(p) = d}

\* a path is below directory d
Below(p, d) == Len(p) > Len(d) + 1 /\ SubSeq(p, 1, Len(d) + 1) = d \o <<Sep>>

\* ------------------------------------------------------------------------
\* Inputs the shell can hand to the operations
\* ------------------------------------------------------------------------
A_txt == <<"a", ".txt">>
SubName == <<"sub">>
Sub_A_txt == Join(SubName, A_txt)

FileNames == {A_txt, Sub_A_txt}
DirNames == {SubName}
Patterns == {"a", ".txt"}
Contents == {<<>>, <<1>>}

\* ------------------------------------------------------------------------
\* The index: File and Folder documents (models/FileModel, models/FolderModel)
\* ------------------------------------------------------------------------
Null == 0
ownerId == "64c9e1234567890123456789"
NoData == <<>>

\* a File document; parentFolder defaults to null, isEncrypted to false and
\* fileData is absent unless given
FileDoc(filename, parent, storageKey, size, ext, mime, data, enc) ==
    [owner |-> ownerId, parentFolder |-> parent, filename |-> filename,
     storageKey |-> storageKey, extension |-> ext, size |-> size,
     mimetype |-> mime, fileData |-> data, isEncrypted |-> enc]

FolderDoc(name, parent) == [name |-> name, owner |-> ownerId, parentFolder |-> parent]

\* fileSchema.index({owner, parentFolder, filename}, {unique: true})
FileKey(d) == <<d.owner, d.parentFolder, d.filename>>
\* folderSchema.index({owner, parentFolder, name}, {unique: true})
FolderKey(d) == <<d.owner, d.parentFolder, d.name>>

\* the unique index rejects (E11000) a write that would give document id the
\* key of another document
FileDup(recs, id, d) == \E j \in DOMAIN recs \ {id} : FileKey(recs[j]) = FileKey(d)
FolderDup(recs, id, d) == \E j \in DOMAIN recs \ {id} : FolderKey(recs[j]) = FolderKey(d)

getMimeType(filename) ==
    IF Extname(filename) = ".txt" THEN "text/plain" ELSE "application/octet-stream"

NoPre == [fileRecs |-> <<>>, folderRecs |-> <<>>]
Snap == [fileRecs |-> fileRecs, folderRecs |-> folderRecs]
Done(op, name, ret, pre) ==
    [op |-> op, name |-> name, ret |-> ret, pre |-> pre, again |-> FALSE, was |-> <<>>]

Idle == walk = <<>>
\* the shell takes the next command once the previous one has returned
Ready == Idle /\ ops < MaxOps

\* a backup step that leaves an empty backup when there is no source
ensureBackupTouch(f, filename) ==
    LET src == resolve(filename)
        dest == resolveBackup(filename)
    IN  IF ~CanWrite(dest) THEN f
        ELSE IF src \in DOMAIN f THEN Put(f, dest, f[src]) ELSE Put(f, dest, <<>>)

\* ------------------------------------------------------------------------
\* utils.ensureBackup: copy the live file to backups/<filename>.bak; every
\* failure (no source, no directory to copy into) is swallowed
\* ------------------------------------------------------------------------
ensureBackup(f, filename) ==
    LET src == resolve(filename)
        dest == resolveBackup(filename)
    IN  IF src \in DOMAIN f /\ CanWrite(dest) THEN Put(f, dest, f[src]) ELSE f

\* ------------------------------------------------------------------------
\* FileOps (DB + disk synced)
\* ------------------------------------------------------------------------
\* FileModel.create: insert under a fresh _id unless the unique index rejects
FileOps_createFile(filename, content) ==
    LET filePath == resolve(filename)
        doc == FileDoc(filename, Null, filePath, Len(content), Extname(filename),
                       "text/plain", NoData, FALSE)
    IN  /\ Ready
        /\ ops' = ops + 1 /\ UNCHANGED track
        /\ IF ~CanWrite(filePath)
           THEN /\ UNCHANGED <<files, fileRecs, nextId>>
                /\ last' = Done("createFile", filename, "ENOENT", NoPre)
           ELSE /\ files' = Put(files, filePath, content)
                /\ IF FileDup(fileRecs, Null, doc)
                   THEN /\ UNCHANGED <<fileRecs, nextId>>
                        /\ last' = Done("createFile", filename, "E11000", NoPre)
                   ELSE /\ fileRecs' = (nextId :> doc) @@ fileRecs
                        /\ nextId' = nextId + 1
                        /\ last' = Done("createFile", filename, "ok", NoPre)
        /\ UNCHANGED <<dirs, folderRecs, walk>>

\* FileModel.findOneAndUpdate({filename, owner}, ...): the documents the
\* filter matches; the store returns one of them (no sort is given)
ByName(filename) ==
    {id \in DOMAIN fileRecs :
        fileRecs[id].filename = filename /\ fileRecs[id].owner = ownerId}

NL == 10

FileOps_append(filename, content) ==
    LET filePath == resolve(filename)
        backed == ensureBackup(files, filename)
        old == IF IsFile(filePath) THEN files[filePath] ELSE <<>>
        was == IF IsFile(filePath) THEN <<files[filePath]>> ELSE <<>>
        new == old \o <<NL>> \o content
    IN  /\ Ready
        /\ ops' = ops + 1 /\ UNCHANGED track
        /\ Len(new) <= MaxLen
        /\ IF ~CanWrite(filePath)
           THEN /\ files' = backed
                /\ UNCHANGED fileRecs
                /\ last' = [Done("append", filename, "ENOENT", NoPre) EXCEPT !.was = was]
           ELSE /\ files' = Put(backed, filePath, new)
                /\ \/ /\ ByName(filename) = {}
                      /\ UNCHANGED fileRecs
                   \/ \E id \in ByName(filename) :
                        fileRecs' = [fileRecs EXCEPT ![id].size = Len(new)]
                /\ last' = [Done("append", filename, "ok", NoPre) EXCEPT !.was = was]
        /\ UNCHANGED <<dirs, folderRecs, nextId, walk>>

FileOps_rename(oldName, newName) ==
    LET oldPath == resolve(oldName)
        newPath == resolve(newName)
    IN  /\ Ready
        /\ ops' = ops + 1 /\ UNCHANGED track
        /\ IF ~IsFile(oldPath) \/ ~CanWrite(newPath)
           THEN /\ UNCHANGED <<files, fileRecs>>
                /\ last' = Done("rename", oldName, "ENOENT", NoPre)
           ELSE /\ files' = Put(Drop(files, oldPath), newPath, files[oldPath])
                /\ \/ /\ ByName(oldName) = {}
                      /\ UNCHANGED fileRecs
                      /\ last' = Done("rename", oldName, "nodb", NoPre)
                   \/ \E id \in ByName(oldName) :
                        LET doc == [fileRecs[id] EXCEPT !.filename = newName,
                                                        !.storageKey = newPath,
                                                        !.extension = Extname(newName)]
                        IN  IF FileDup(fileRecs, id, doc)
                            THEN /\ UNCHANGED fileRecs
                                 /\ last' = Done("rename", oldName, "E11000", NoPre)
                            ELSE /\ fileRecs' = [fileRecs EXCEPT ![id] = doc]
                                 /\ last' = [Done("rename", oldName, "ok", NoPre)
                                               EXCEPT !.was = <<newName>>]
        /\ UNCHANGED <<dirs, folderRecs, nextId, walk>>

FileOps_copy(src, dest) ==
    LET srcPath == resolve(src)
        destPath == resolve(dest)
        doc == FileDoc(dest, Null, destPath, Len(files[srcPath]), Extname(dest),
                       "application/octet-stream", NoData, FALSE)
    IN  /\ Ready
        /\ ops' = ops + 1 /\ UNCHANGED track
        /\ IF ~IsFile(srcPath) \/ ~CanWrite(destPath)
           THEN /\ UNCHANGED <<files, fileRecs, nextId>>
                /\ last' = Done("copy", dest, "ENOENT", NoPre)
           ELSE IF IsFile(destPath)
           THEN /\ UNCHANGED <<files, fileRecs, nextId>>
                /\ last' = Done("copy", dest, "EEXIST", NoPre)
           ELSE /\ files' = Put(files, destPath, files[srcPath])
                /\ IF FileDup(fileRecs, Null, doc)
                   THEN /\ UNCHANGED <<fileRecs, nextId>>
                        /\ last' = Done("copy", dest, "E11000", NoPre)
                   ELSE /\ fileRecs' = (nextId :> doc) @@ fileRecs
                        /\ nextId' = nextId + 1
                        /\ last' = Done("copy", dest, "ok", NoPre)
        /\ UNCHANGED <<dirs, folderRecs, walk>>

\* ------------------------------------------------------------------------
\* DirOps: module.exports spreads DirOps after FileOps, so the exported
\* delete is DirOps.delete (fs.rm recursive, force); the index is not touched
\* ------------------------------------------------------------------------
DirOps_createDir(name) ==
    /\ Ready
    /\ ops' = ops + 1 /\ UNCHANGED track
    /\ IF \E d \in MkdirP(resolve(name)) : IsFile(d)
       THEN /\ UNCHANGED dirs
            /\ last' = Done("createDir", name, "EEXIST", NoPre)
       ELSE /\ dirs' = dirs \cup MkdirP(resolve(name))
            /\ last' = Done("createDir", name, "ok", NoPre)
    /\ UNCHANGED <<files, fileRecs, folderRecs, nextId, walk>>

DirOps_delete(name) ==
    LET target == resolve(name)
        gone(p) == p = target \/ Below(p, target)
    IN  /\ Ready
        /\ ops' = ops + 1 /\ UNCHANGED track
        /\ files' = [p \in {q \in DOMAIN files : ~gone(q)} |-> files[p]]
        /\ dirs' = {d \in dirs : ~gone(d)}
        /\ last' = [Done("delete", name, "ok", NoPre) EXCEPT
                        !.was = IF IsFile(target) THEN <<files[target]>> ELSE <<>>]
        /\ UNCHANGED <<fileRecs, folderRecs, nextId, walk>>

\* deleteByPattern: unlink every entry of baseDir whose name includes the
\* pattern, then deleteMany on the names. fs.unlink rejects a directory; the
\* other unlinks of the Promise.all have been issued and go through, and the
\* index is not reached
DirOps_deleteByPattern(pattern) ==
    LET targets == {p \in Readdir(Root) : NameIncludes(p, pattern)}
    IN  /\ Ready
        /\ ops' = ops + 1 /\ UNCHANGED track
        /\ IF targets = {}
           THEN /\ UNCHANGED <<files, fileRecs>>
                /\ last' = Done("deleteByPattern", <<pattern>>, "nomatch", NoPre)
           ELSE /\ files' = [p \in DOMAIN files \ targets |-> files[p]]
                /\ IF targets \cap dirs # {}
                   THEN /\ UNCHANGED fileRecs
                        /\ last' = Done("deleteByPattern", <<pattern>>, "EISDIR", NoPre)
                   ELSE /\ fileRecs' = [id \in {j \in DOMAIN fileRecs :
                                                   ~(/\ fileRecs[j].filename \in targets
                                                     /\ fileRecs[j].owner = ownerId)}
                                           |-> fileRecs[id]]
                        /\ last' = Done("deleteByPattern", <<pattern>>, "ok", NoPre)
        /\ UNCHANGED <<dirs, folderRecs, nextId, walk>>

\* ------------------------------------------------------------------------
\* dbHelper / dbOps
\* ------------------------------------------------------------------------
\* the folder's _id is handed to the recursion although its document is not
\* stored
ensureFolderDocUnsaved(recs, fresh, folderName, parentId) ==
    LET hit == {id \in DOMAIN recs : recs[id] = FolderDoc(folderName, parentId)}
    IN  IF hit # {}
        THEN [recs |-> recs, id |-> CHOOSE id \in hit : TRUE, minted |-> FALSE]
        ELSE [recs |-> recs, id |-> fresh, minted |-> TRUE]

\* FolderModel.findOne, else FolderModel.create; returns the index and the _id
ensureFolderDoc(recs, fresh, folderName, parentId) ==
    LET hit == {id \in DOMAIN recs : recs[id] = FolderDoc(folderName, parentId)}
    IN  IF hit # {}
        THEN [recs |-> recs, id |-> CHOOSE id \in hit : TRUE, minted |-> FALSE]
        ELSE [recs |-> (fresh :> FolderDoc(folderName, parentId)) @@ recs,
              id |-> fresh, minted |-> TRUE]

\* an upsert written as remove-then-insert: the document gets a new _id
SyncUpsertReinsert(recs, fresh, name, parentId, fullPath, size) ==
    LET hit == {id \in DOMAIN recs :
                   /\ recs[id].filename = name
                   /\ recs[id].owner = ownerId
                   /\ recs[id].parentFolder = parentId}
    IN  [recs |-> (fresh :> FileDoc(name, parentId, fullPath, size, Extname(name),
                                    getMimeType(name), NoData, FALSE))
                  @@ [id \in DOMAIN recs \ hit |-> recs[id]],
         minted |-> TRUE]

\* an upsert whose filter leaves out parentFolder, like the FileOps filters
SyncUpsertAnyParent(recs, fresh, name, parentId, fullPath, size) ==
    LET hit == {id \in DOMAIN recs : recs[id].filename = name /\ recs[id].owner = ownerId}
    IN  IF hit # {}
        THEN LET id == CHOOSE id \in hit : TRUE
             IN  [recs |-> [recs EXCEPT ![id].storageKey = fullPath,
                                        ![id].size = size,
                                        ![id].extension = Extname(name),
                                        ![id].mimetype = getMimeType(name),
                                        ![id].parentFolder = parentId],
                  minted |-> FALSE]
        ELSE [recs |-> (fresh :> FileDoc(name, parentId, fullPath, size, Extname(name),
                                         getMimeType(name), NoData, FALSE)) @@ recs,
              minted |-> TRUE]

\* an upsert that replaces the matching document as a whole: the fields the
\* update does not name fall back to their defaults
SyncUpsertReplacing(recs, fresh, name, parentId, fullPath, size) ==
    LET hit == {id \in DOMAIN recs :
                   /\ recs[id].filename = name
                   /\ recs[id].owner = ownerId
                   /\ recs[id].parentFolder = parentId}
        doc == FileDoc(name, parentId, fullPath, size, Extname(name),
                       getMimeType(name), NoData, FALSE)
    IN  IF hit # {}
        THEN [recs |-> [recs EXCEPT ![CHOOSE id \in hit : TRUE] = doc], minted |-> FALSE]
        ELSE [recs |-> (fresh :> doc) @@ recs, minted |-> TRUE]

\* FileModel.findOneAndUpdate({filename, owner, parentFolder}, {...},
\* {upsert: true}): the matching document keeps its _id and its other fields
SyncUpsert(recs, fresh, name, parentId, fullPath, size) ==
    LET hit == {id \in DOMAIN recs :
                   /\ recs[id].filename = name
                   /\ recs[id].owner = ownerId
                   /\ recs[id].parentFolder = parentId}
    IN  IF hit # {}
        THEN LET id == CHOOSE id \in hit : TRUE
             IN  [recs |-> [recs EXCEPT ![id].storageKey = fullPath,
                                        ![id].size = size,
                                        ![id].extension = Extname(name),
                                        ![id].mimetype = getMimeType(name)],
                  minted |-> FALSE]
        ELSE [recs |-> (fresh :> FileDoc(name, parentId, fullPath, size, Extname(name),
                                         getMimeType(name), NoData, FALSE)) @@ recs,
              minted |-> TRUE]

dbOps_saveToDB(filename, parentFolderId) ==
    LET filePath == resolve(filename)
        nameOnly == Basename(filename)
        existing == {id \in DOMAIN fileRecs :
                        /\ fileRecs[id].filename = nameOnly
                        /\ fileRecs[id].owner = ownerId
                        /\ fileRecs[id].parentFolder = parentFolderId}
        fileContent == files[filePath]
    IN  /\ Ready
        /\ ops' = ops + 1
        /\ track' = IF IsFile(filePath) THEN Put(track, filePath, fileContent) ELSE track
        /\ IF ~IsFile(filePath)
           THEN /\ UNCHANGED <<fileRecs, nextId>>
                /\ last' = Done("saveToDB", filename, "nofile", NoPre)
           ELSE IF existing # {}
           THEN /\ fileRecs' = [fileRecs EXCEPT
                                  ![CHOOSE id \in existing : TRUE] =
                                      [@ EXCEPT !.size = Len(fileContent),
                                                !.storageKey = filePath,
                                                !.fileData = <<fileContent>>]]
                /\ UNCHANGED nextId
                /\ last' = Done("saveToDB", filename, "ok", NoPre)
           ELSE /\ fileRecs' = (nextId :> FileDoc(nameOnly, parentFolderId, filePath,
                                                  Len(fileContent), Extname(nameOnly),
                                                  getMimeType(nameOnly), <<fileContent>>,
                                                  EndsWith(nameOnly, ".enc"))) @@ fileRecs
                /\ nextId' = nextId + 1
                /\ last' = Done("saveToDB", filename, "ok", NoPre)
        /\ UNCHANGED <<files, dirs, folderRecs, walk>>

\* fileDoc.storageKey || utils.resolve(fileDoc.filename): storageKey is a
\* required field, so every stored document has one
restorePath(fileDoc) == fileDoc.storageKey

\* fullRestore(identifier): hits are the documents the query matches (the one
\* with that _id, or those with that filename and owner); findOne takes one.
\* last.was tells which, and whether its file was on disk
dbOps_fullRestore(identifier, hits) ==
    /\ Ready
    /\ ops' = ops + 1 /\ UNCHANGED track
    /\ IF hits = {}
       THEN /\ UNCHANGED files
            /\ last' = Done("fullRestore", identifier, "notfound", NoPre)
       ELSE \E id \in hits :
            LET fileDoc == fileRecs[id]
                found == [Done("fullRestore", identifier, "ok", NoPre) EXCEPT
                             !.was = <<[id |-> id, there |-> IsFile(restorePath(fileDoc))]>>]
            IN  IF fileDoc.fileData = NoData
                THEN /\ UNCHANGED files
                     /\ last' = [found EXCEPT !.ret = "nosnapshot"]
                ELSE IF ~CanWrite(restorePath(fileDoc))
                THEN /\ UNCHANGED files
                     /\ last' = [found EXCEPT !.ret = "ENOENT"]
                ELSE /\ files' = Put(files, restorePath(fileDoc), fileDoc.fileData[1])
                     /\ last' = found
    /\ UNCHANGED <<dirs, fileRecs, folderRecs, nextId, walk>>

\* entries of the tree the walk will visit: everything outside a directory
\* named backups
Skipped(p) == \E i \in 1..Len(p) : /\ p[i] = "backups"
                                   /\ (i = 1 \/ p[i - 1] = Sep)
                                   /\ IF i = Len(p) THEN p \in dirs ELSE p[i + 1] = Sep
Visited == {p \in DOMAIN files \cup dirs : ~Skipped(p)}

\* syncToDB(CONFIG.baseDir, null): readdir, then one loop turn per step
Frame(path, parentId) == [path |-> path, parent |-> parentId, items |-> Readdir(path)]

dbOps_syncToDB ==
    /\ Ready
    /\ ops' = ops + 1 /\ UNCHANGED track
    /\ walk' = <<Frame(Root, Null)>>
    /\ last' = [op |-> "syncToDB", name |-> Root, ret |-> "running", pre |-> Snap,
                again |-> (last.op = "syncToDB" /\ last.ret = "ok"), was |-> <<>>]
    /\ UNCHANGED <<files, dirs, fileRecs, folderRecs, nextId>>

Top == walk[Len(walk)]
Rest == SubSeq(walk, 1, Len(walk) - 1)
Without(item) == [Top EXCEPT !.items = @ \ {item}]

\* if (item.isDirectory()): skip backups, else ensureFolderDoc and recurse
syncDirectory ==
    /\ ~Idle
    /\ UNCHANGED <<ops, track>>
    /\ \E item \in Top.items :
        /\ item \in dirs
        /\ IF Basename(item) = BackupsName
           THEN /\ walk' = Rest \o <<Without(item)>>
                /\ UNCHANGED <<folderRecs, nextId>>
           ELSE LET r == ensureFolderDoc(folderRecs, nextId, Basename(item), Top.parent)
                IN  /\ folderRecs' = r.recs
                    /\ nextId' = IF r.minted THEN nextId + 1 ELSE nextId
                    /\ walk' = Rest \o <<Without(item), Frame(item, r.id)>>
    /\ UNCHANGED <<files, dirs, fileRecs, last>>

\* else: fs.stat and the upsert of the file's document
syncFile ==
    /\ ~Idle
    /\ UNCHANGED <<ops, track>>
    /\ \E item \in Top.items :
        /\ item \in DOMAIN files
        /\ LET r == SyncUpsert(fileRecs, nextId, Basename(item), Top.parent, item,
                               Len(files[item]))
           IN  /\ fileRecs' = r.recs
               /\ nextId' = IF r.minted THEN nextId + 1 ELSE nextId
        /\ walk' = Rest \o <<Without(item)>>
    /\ UNCHANGED <<files, dirs, folderRecs, last>>

\* the loop of one call is over: return to the caller
syncReturn ==
    /\ ~Idle
    /\ UNCHANGED <<ops, track>>
    /\ Top.items = {}
    /\ walk' = Rest
    /\ last' = IF Len(walk) = 1 THEN [last EXCEPT !.ret = "ok"] ELSE last
    /\ UNCHANGED <<files, dirs, fileRecs, folderRecs, nextId>>

\* cleanDB: delete every document of the owner whose storageKey fs.access
\* rejects; last.was is deletedCount
\* the probe made on the logical name instead of the stored path
OrphansByName(recs) ==
    {id \in DOMAIN recs :
        recs[id].owner = ownerId /\ ~Accessible(resolve(recs[id].filename))}

Orphans(recs) ==
    {id \in DOMAIN recs : recs[id].owner = ownerId /\ ~Accessible(recs[id].storageKey)}

dbOps_cleanDB ==
    /\ Ready
    /\ ops' = ops + 1 /\ UNCHANGED track
    /\ fileRecs' = [id \in DOMAIN fileRecs \ Orphans(fileRecs) |-> fileRecs[id]]
    /\ last' = [Done("cleanDB", Root, "ok", Snap) EXCEPT
                    !.was = <<Cardinality(Orphans(fileRecs))>>]
    /\ UNCHANGED <<files, dirs, folderRecs, nextId, walk>>

\* ------------------------------------------------------------------------
\* The DB-synced file manager
\* ------------------------------------------------------------------------
Init ==
    /\ files = <<>>
    /\ dirs = {backupDir}
    /\ fileRecs = <<>>
    /\ folderRecs = <<>>
    /\ nextId = 1
    /\ walk = <<>>
    /\ ops = 0
    /\ track = <<>>
    /\ last = Done("boot", Root, "ok", NoPre)

Next ==
    \/ \E n \in FileNames, c \in Contents : FileOps_createFile(n, c)
    \/ \E n \in FileNames : FileOps_append(n, <<>>)
    \/ \E n, m \in FileNames : FileOps_rename(n, m)
    \/ \E n, m \in FileNames : FileOps_copy(n, m)
    \/ \E d \in DirNames : DirOps_createDir(d)
    \/ \E n \in FileNames \cup DirNames : DirOps_delete(n)
    \/ \E pt \in Patterns : DirOps_deleteByPattern(pt)
    \/ \E n \in FileNames, pf \in {Null} \cup DOMAIN folderRecs : dbOps_saveToDB(n, pf)
    \/ dbOps_syncToDB
    \/ syncDirectory
    \/ syncFile
    \/ syncReturn
    \/ dbOps_cleanDB
    \/ \E id \in DOMAIN fileRecs : dbOps_fullRestore(Root, {id})
    \/ \E n \in FileNames : dbOps_fullRestore(n, ByName(n))

Spec == Init /\ [][Next]_vars

\* ------------------------------------------------------------------------
\* The DB-synced file manager with an entry of the walk that fails: fs.stat
\* or the index write of one entry rejects (at most once per syncToDB). The
\* loop has no try/catch of its own, so the rejection leaves the loop and is
\* caught by the safeExecute wrapper of the running call: that call returns
\* and its caller, if any, goes on with its next entry
\* ------------------------------------------------------------------------
syncThrows ==
    /\ ~Idle
    /\ last.was = <<>>
    /\ \E item \in Top.items :
        /\ item \in DOMAIN files \/ Basename(item) # BackupsName
        /\ last' = [last EXCEPT !.was = <<item>>,
                                !.ret = IF Len(walk) = 1 THEN "failed" ELSE @]
    /\ walk' = Rest
    /\ UNCHANGED <<files, dirs, fileRecs, folderRecs, nextId, ops, track>>

NextFaults ==
    \/ Next
    \/ syncThrows

SpecFaults == Init /\ [][NextFaults]_vars

\* ------------------------------------------------------------------------
\* Properties of the index (Spec)
\* ------------------------------------------------------------------------
UniqueFiles ==
    \A i, j \in DOMAIN fileRecs : i # j => FileKey(fileRecs[i]) # FileKey(fileRecs[j])
UniqueFolders ==
    \A i, j \in DOMAIN folderRecs : i # j => FolderKey(folderRecs[i]) # FolderKey(folderRecs[j])

\* C1: no two File documents and no two Folder documents share their key,
\* and no operation ends with the unique index rejecting its write: a write
\* that meets an existing key merges into the existing document.
C1_UniqueAndMerging ==
    /\ UniqueFiles
    /\ UniqueFolders
    /\ last.ret # "E11000"

SyncDone == Idle /\ last.op = "syncToDB" /\ last.ret = "ok"

C3_CleanRemovesOrphans ==
    last.op = "cleanDB" =>
        /\ DOMAIN fileRecs =
             {id \in DOMAIN last.pre.fileRecs :
                 Accessible(last.pre.fileRecs[id].storageKey)}
        /\ \A id \in DOMAIN fileRecs : fileRecs[id] = last.pre.fileRecs[id]
        /\ folderRecs = last.pre.folderRecs
        /\ last.was = <<Cardinality(DOMAIN last.pre.fileRecs \ DOMAIN fileRecs)>>

C3_Witness ==
    /\ last.op = "cleanDB"
    /\ last.was[1] >= 1
    /\ DOMAIN fileRecs # {}

FolderIds == {Null} \cup DOMAIN folderRecs

\* C9: during a walk, every document the sync writes or creates has a
\* parentFolder that is null or the _id of a Folder document that was already
\* stored before the write, and every pending call's parent is stored.
C9_FolderBeforeChildren ==
    /\ [](\A i \in 1..Len(walk) : walk[i].parent \in FolderIds)
    /\ [][~Idle =>
            /\ \A id \in DOMAIN fileRecs' :
                 (id \notin DOMAIN fileRecs \/ fileRecs'[id] # fileRecs[id])
                     => fileRecs'[id].parentFolder \in FolderIds
            /\ \A id \in DOMAIN folderRecs' \ DOMAIN folderRecs :
                 folderRecs'[id].parentFolder \in FolderIds]_vars

C9_Witness ==
    /\ ~Idle
    /\ \E id \in DOMAIN fileRecs \ DOMAIN last.pre.fileRecs :
         fileRecs[id].parentFolder \in DOMAIN folderRecs

\* the documents a walk over the directories D and the files F must leave
Mirrors(D, F) ==
    \E g \in [D -> DOMAIN folderRecs] :
    \E h \in [F -> DOMAIN fileRecs] :
        LET parentOf(p) == IF Dirname(p) = Root THEN Null ELSE g[Dirname(p)]
        IN  /\ \A d, e \in D : g[d] = g[e] => d = e
            /\ \A id \in DOMAIN folderRecs : \E d \in D : g[d] = id
            /\ \A d \in D : folderRecs[g[d]] = FolderDoc(Basename(d), parentOf(d))
            /\ \A p, q \in F : h[p] = h[q] => p = q
            /\ \A id \in DOMAIN fileRecs : \E p \in F : h[p] = id
            /\ \A p \in F :
                 /\ fileRecs[h[p]].filename = Basename(p)
                 /\ fileRecs[h[p]].parentFolder = parentOf(p)
                 /\ fileRecs[h[p]].size = Len(files[p])
                 /\ fileRecs[h[p]].storageKey = p
                 /\ fileRecs[h[p]].owner = ownerId

FromEmpty == SyncDone /\ last.pre = NoPre

FolderSynced(d) ==
    \E id \in DOMAIN folderRecs :
        /\ folderRecs[id].name = Basename(d)
        /\ Dirname(d) = Root => folderRecs[id].parentFolder = Null
        /\ Dirname(d) # Root => folderRecs[id].parentFolder \in DOMAIN folderRecs

FileSynced(p) ==
    \E id \in DOMAIN fileRecs :
        /\ fileRecs[id].filename = Basename(p)
        /\ fileRecs[id].storageKey = p
        /\ fileRecs[id].size = Len(files[p])
        /\ Dirname(p) = Root => fileRecs[id].parentFolder = Null
        /\ Dirname(p) # Root => fileRecs[id].parentFolder \in DOMAIN folderRecs

SyncEnded == Idle /\ last.op = "syncToDB" /\ last.ret \in {"ok", "failed"}

\* C20 (SpecFaults): when a syncToDB in which one entry failed has ended,
\* every other entry of the tree outside the backups, and not below the
\* failed entry, has its document.
C20_FailureSkipsOnlyThatEntry ==
    (SyncEnded /\ last.was # <<>>) =>
        \A p \in Visited :
            (p # last.was[1] /\ ~Below(p, last.was[1])) =>
                IF p \in dirs THEN FolderSynced(p) ELSE FileSynced(p)

\* the user-facing operation that ran last reported success
Completed ==
    /\ last.op \in {"createFile", "append", "rename", "copy", "delete"}
    /\ last.ret = "ok"

\* the paths the operation that ran last was about
Concerned ==
    {resolve(last.name)} \cup (IF last.op = "rename" THEN {resolve(last.was[1])} ELSE {})

RecordsOf(p) == {id \in DOMAIN fileRecs : fileRecs[id].storageKey = p}

\* C11: after a completed create, append, rename, copy or delete, a File
\* document whose storageKey is the path of a file concerned exists iff the
\* file is on disk, and every such document carries the file's current size.
C11_IndexMatchesDisk ==
    Completed =>
        \A p \in Concerned :
            /\ RecordsOf(p) # {} <=> IsFile(p)
            /\ IsFile(p) => \A id \in RecordsOf(p) : fileRecs[id].size = Len(files[p])

\* C12: after the exported delete of a name that was a file on disk, the file
\* is gone from disk and no File document of that file remains.
C12_DeleteRemovesRecord ==
    (last.op = "delete" /\ last.was # <<>>) =>
        /\ ~IsFile(resolve(last.name))
        /\ RecordsOf(resolve(last.name)) = {}
        /\ ByName(last.name) = {}

ErrorRets == {"ENOENT", "EEXIST", "E11000", "EISDIR", "nofile"}

\* C13: a command that ends in a reported error leaves the disk and the index
\* exactly as they were before the call.
C13_ErrorLeavesStateUnchanged ==
    [][(ops' = ops + 1 /\ last'.ret \in ErrorRets) =>
            /\ files' = files
            /\ dirs' = dirs
            /\ fileRecs' = fileRecs
            /\ folderRecs' = folderRecs]_vars

\* the backup files on a disk
Backups(f) == [p \in {q \in DOMAIN f : Below(q, backupDir)} |-> f[p]]

\* C19: an append to a name whose source file does not exist goes through
\* the backup step without any backup file created or changed and without an
\* error from it: the append itself proceeds and creates the file whenever
\* the path can be written.
C19_BackupOfMissingSourceIsNoOp ==
    [][(ops' = ops + 1 /\ last'.op = "append" /\ last'.was = <<>>) =>
            /\ Backups(files') = Backups(files)
            /\ last'.ret = "ok" <=> CanWrite(resolve(last'.name))
            /\ last'.ret = "ok" => resolve(last'.name) \in DOMAIN files']_vars

C19_Witness ==
    /\ last.op = "append"
    /\ last.ret = "ok"
    /\ last.was = <<>>
    /\ IsFile(resolveBackup(last.name))
    /\ files[resolveBackup(last.name)] # <<>>

\* C24: a step of the walk keeps every File document in the index under its
\* _id and changes at most its storageKey, size, extension and mimetype; and
\* the fileData of a document that stays in the index changes in no step
\* other than a saveToDB.
C24_SyncKeepsIdAndSnapshot ==
    /\ [][~Idle =>
            \A id \in DOMAIN fileRecs :
                /\ id \in DOMAIN fileRecs'
                /\ fileRecs'[id] = [fileRecs[id] EXCEPT
                                        !.storageKey = fileRecs'[id].storageKey,
                                        !.size = fileRecs'[id].size,
                                        !.extension = fileRecs'[id].extension,
                                        !.mimetype = fileRecs'[id].mimetype]]_vars
    /\ [][\A id \in DOMAIN fileRecs \cap DOMAIN fileRecs' :
            fileRecs'[id].fileData # fileRecs[id].fileData =>
                (ops' = ops + 1 /\ last'.op = "saveToDB")]_vars

\* a walk has rewritten the size of a document that carries a snapshot of
\* other bytes
C24_Witness ==
    /\ last.op = "syncToDB"
    /\ \E id \in DOMAIN fileRecs \cap DOMAIN last.pre.fileRecs :
        /\ fileRecs[id].fileData # NoData
        /\ fileRecs[id].fileData = last.pre.fileRecs[id].fileData
        /\ fileRecs[id].size # last.pre.fileRecs[id].size
        /\ fileRecs[id].size # Len(fileRecs[id].fileData[1])

\* C27: when a syncToDB has completed, every disk file outside the backups
\* is the storageKey of exactly one File document.
C27_OneRecordPerFile ==
    SyncDone => \A p \in DOMAIN files \cap Visited : Cardinality(RecordsOf(p)) = 1

\* C30: an append, rename or delete of the logical name f leaves every File
\* document whose storageKey is not the path of f in the index with all its
\* fields.
C30_OtherRecordsUntouched ==
    [][(ops' = ops + 1 /\ last'.op \in {"append", "rename", "delete"}) =>
            \A id \in DOMAIN fileRecs :
                fileRecs[id].storageKey # resolve(last'.name) =>
                    /\ id \in DOMAIN fileRecs'
                    /\ fileRecs'[id] = fileRecs[id]]_vars

\* ------------------------------------------------------------------------
\* A folder of the user's that is named like the backup directory
\* ------------------------------------------------------------------------
Sub_backups == Join(SubName, BackupsName)
NestedDirs == {SubName, Sub_backups}
NestedFiles == {A_txt, Join(Sub_backups, A_txt)}

NextNested ==
    \/ \E d \in NestedDirs : DirOps_createDir(d)
    \/ \E n \in NestedFiles, c \in Contents : FileOps_createFile(n, c)
    \/ \E n \in NestedFiles \cup NestedDirs : DirOps_delete(n)
    \/ dbOps_syncToDB
    \/ syncDirectory
    \/ syncFile
    \/ syncReturn
    \/ dbOps_cleanDB

SpecNested == Init /\ [][NextNested]_vars

\* the reserved backup directory and what is inside it
Reserved(p) == p = backupDir \/ Below(p, backupDir)

\* C25: after a syncToDB from the storage root no File or Folder document
\* refers to the reserved backup directory or into it, and every other
\* directory and file on disk has its document: the walk skips nothing but
\* the reserved backup directory.
C25_OnlyBackupAreaSkipped ==
    SyncDone =>
        /\ \A id \in DOMAIN fileRecs : ~Reserved(fileRecs[id].storageKey)
        /\ \A id \in DOMAIN folderRecs :
               ~(folderRecs[id].name = BackupsName /\ folderRecs[id].parentFolder = Null)
        /\ \A d \in dirs : ~Reserved(d) => FolderSynced(d)
        /\ \A p \in DOMAIN files : ~Reserved(p) => FileSynced(p)

\* the document a fullRestore step is about to take
Taken == fileRecs[last'.was[1].id]

RestoreStep == ops' = ops + 1 /\ last'.op = "fullRestore"

\* C22: fullRestore on a document without fileData reports the
\* missing snapshot and writes nothing; on a document with fileData it
\* writes exactly those bytes to the document's storageKey; the index is
\* not changed.
C22_RestoreWritesSnapshot ==
    [][(RestoreStep /\ last'.was # <<>>) =>
            /\ fileRecs' = fileRecs /\ folderRecs' = folderRecs /\ dirs' = dirs
            /\ Taken.fileData = NoData => (last'.ret = "nosnapshot" /\ files' = files)
            /\ Taken.fileData # NoData =>
                   /\ last'.ret = "ok"
                   /\ files' = Put(files, Taken.storageKey, Taken.fileData[1])]_vars

\* what fullRestore does: the write goes through when the directory of the
\* storageKey exists (and the path is no directory); otherwise the write
\* error is reported and nothing is written.
RestoreWritesSnapshotIfWritable ==
    [][(RestoreStep /\ last'.was # <<>>) =>
            /\ fileRecs' = fileRecs /\ folderRecs' = folderRecs /\ dirs' = dirs
            /\ Taken.fileData = NoData => (last'.ret = "nosnapshot" /\ files' = files)
            /\ (Taken.fileData # NoData /\ CanWrite(Taken.storageKey)) =>
                   /\ last'.ret = "ok"
                   /\ files' = Put(files, Taken.storageKey, Taken.fileData[1])
            /\ (Taken.fileData # NoData /\ ~CanWrite(Taken.storageKey)) =>
                   /\ last'.ret = "ENOENT"
                   /\ files' = files]_vars

\* a restore has brought back a file that was gone, under a document whose
\* filename is not the logical name of the file
RestoredUnderOtherName ==
    /\ last.op = "fullRestore"
    /\ last.ret = "ok"
    /\ ~last.was[1].there
    /\ resolve(fileRecs[last.was[1].id].filename) # fileRecs[last.was[1].id].storageKey
    /\ files[fileRecs[last.was[1].id].storageKey] = fileRecs[last.was[1].id].fileData[1]

\* the index holds the bytes saveToDB captured for path p, under p's name
Recoverable(recs, p) ==
    \E id \in DOMAIN recs :
        /\ recs[id].filename = Basename(p)
        /\ recs[id].storageKey = p
        /\ recs[id].fileData = <<track[p]>>

SyncOrCleanStep ==
    \/ walk # <<>> \/ walk' # <<>>
    \/ ops' = ops + 1 /\ last'.op = "cleanDB"

\* C23: bytes that saveToDB has captured for a file stay recoverable once
\* the disk file is gone: no syncToDB or cleanDB step takes them out of the
\* index, and a fullRestore by the file's name then goes through and leaves
\* the captured bytes on disk.
C23_SnapshotStaysRecoverable ==
    [][\A p \in DOMAIN track :
          (~IsFile(p) /\ Recoverable(fileRecs, p)) =>
              /\ SyncOrCleanStep => Recoverable(fileRecs', p)
              /\ (RestoreStep /\ last'.name = Basename(p)) =>
                     /\ last'.ret = "ok"
                     /\ p \in DOMAIN files'
                     /\ files'[p] = track[p]]_vars

\* ------------------------------------------------------------------------
\* The file manager with backup and revert (createBackup / revertFile)
\* ------------------------------------------------------------------------
dbVars == <<fileRecs, folderRecs, nextId, walk>>

getFilePath(filename) == Join(Root, filename)

FolderNames == {BackupsName, Join(BackupsName, SubName)}
OldTexts == {<<1>>}
NewTexts == {<<>>, <<NL>>}
FetchBodies == {<<1>>}

\* a backup copy made with COPYFILE_EXCL: an existing backup is kept
createBackupKeepFirst(f, filename) ==
    LET originalPath == getFilePath(filename)
        backupPath == Join(backupDir, filename \o <<".bak">>)
    IN  IF originalPath \in DOMAIN f /\ CanWrite(backupPath) /\ backupPath \notin DOMAIN f
        THEN Put(f, backupPath, f[originalPath])
        ELSE f

\* a backup copy stored flat, under the base name of the file
createBackupFlat(f, filename) ==
    LET originalPath == getFilePath(filename)
        backupPath == Join(backupDir, Basename(filename) \o <<".bak">>)
    IN  IF originalPath \in DOMAIN f /\ CanWrite(backupPath)
        THEN Put(f, backupPath, f[originalPath])
        ELSE f

\* createBackup: fs.access(originalPath), fs.copyFile(originalPath, backupPath);
\* the inner catch swallows every failure
createBackup(f, filename) ==
    LET originalPath == getFilePath(filename)
        backupPath == Join(backupDir, filename \o <<".bak">>)
    IN  IF originalPath \in DOMAIN f /\ CanWrite(backupPath)
        THEN Put(f, backupPath, f[originalPath])
        ELSE f

BackupPath(filename) == Join(backupDir, filename \o <<".bak">>)

\* data.split(oldText).join(newText), for a non-empty oldText
RECURSIVE ReplaceAll(_, _, _)
ReplaceAll(data, oldText, newText) ==
    IF Len(data) < Len(oldText) THEN data
    ELSE IF SubSeq(data, 1, Len(oldText)) = oldText
         THEN newText \o ReplaceAll(SubSeq(data, Len(oldText) + 1, Len(data)), oldText, newText)
         ELSE <<data[1]>> \o ReplaceAll(Tail(data), oldText, newText)

\* what the operations so far did to a logical name:
\*   stage   "created" after createFile, "mutated" after one append / replace /
\*           overwrite of the created file, "reverted" once revertFile was
\*           called on the mutated file, "none" otherwise
\*   c1      the content createFile wrote
\*   mut     <<bytes>> of the live file when the latest append / replace /
\*           overwrite of the existing file began
\*   any     <<bytes>> of the live file before the latest operation that
\*           changed its content (an append / replace / overwrite always counts)
\*   changed the content has changed since the file was created
NoTrack == [stage |-> "none", c1 |-> <<>>, mut |-> <<>>, any |-> <<>>, changed |-> FALSE]

Was(path) == IF IsFile(path) THEN <<files[path]>> ELSE <<>>

DoneF(op, name, ret, was) == [Done(op, name, ret, NoPre) EXCEPT !.was = was]

\* an edit of an existing file through one of the three backed-up operations
Mutated(t, old, new) ==
    [t EXCEPT !.stage = IF @ = "created" THEN "mutated" ELSE "none",
              !.mut = <<old>>,
              !.any = <<old>>,
              !.changed = TRUE]

\* a write that is no backed-up edit: it creates the file or replaces its bytes
Written(t, was, new) ==
    IF was = <<>>
    THEN [t EXCEPT !.stage = "none", !.any = <<>>, !.changed = FALSE]
    ELSE [t EXCEPT !.stage = "none",
                   !.any = IF new # was[1] THEN was ELSE @,
                   !.changed = @ \/ new # was[1]]

createFile(filename, content) ==
    LET filePath == getFilePath(filename)
        folderPath == Dirname(filePath)
    IN  /\ ops < MaxOps
        /\ ops' = ops + 1
        /\ dirs' = IF folderPath = Root THEN dirs ELSE dirs \cup MkdirP(folderPath)
        /\ files' = Put(files, filePath, content)
        /\ track' = [track EXCEPT ![filename] =
                        [Written(@, Was(filePath), content) EXCEPT
                            !.stage = "created", !.c1 = content, !.changed = FALSE]]
        /\ last' = DoneF("createFile", filename, "ok", Was(filePath))
        /\ UNCHANGED dbVars

appendToFile(filename, content) ==
    LET filePath == getFilePath(filename)
        backed == createBackup(files, filename)
        old == IF IsFile(filePath) THEN files[filePath] ELSE <<>>
        new == old \o <<NL>> \o content
    IN  /\ ops < MaxOps
        /\ ops' = ops + 1
        /\ Len(new) <= MaxLen
        /\ IF ~CanWrite(filePath)
           THEN /\ files' = backed
                /\ UNCHANGED track
                /\ last' = DoneF("appendToFile", filename, "ENOENT", Was(filePath))
           ELSE /\ files' = Put(backed, filePath, new)
                /\ track' = [track EXCEPT ![filename] =
                                IF IsFile(filePath) THEN Mutated(@, old, new)
                                ELSE Written(@, <<>>, new)]
                /\ last' = DoneF("appendToFile", filename, "ok", Was(filePath))
        /\ UNCHANGED <<dirs, dbVars>>

replaceText(filename, oldText, newText) ==
    LET filePath == getFilePath(filename)
        data == files[filePath]
        newData == ReplaceAll(data, oldText, newText)
    IN  /\ ops < MaxOps
        /\ ops' = ops + 1
        /\ IF ~IsFile(filePath)
           THEN /\ UNCHANGED <<files, track>>
                /\ last' = DoneF("replaceText", filename, "ENOENT", <<>>)
           ELSE IF ~Includes(data, oldText)
           THEN /\ UNCHANGED <<files, track>>
                /\ last' = DoneF("replaceText", filename, "notfound", <<data>>)
           ELSE /\ files' = Put(createBackup(files, filename), filePath, newData)
                /\ track' = [track EXCEPT ![filename] = Mutated(@, data, newData)]
                /\ last' = DoneF("replaceText", filename, "ok", <<data>>)
        /\ UNCHANGED <<dirs, dbVars>>

overwriteFile(filename, newContent) ==
    LET filePath == getFilePath(filename)
    IN  /\ ops < MaxOps
        /\ ops' = ops + 1
        /\ IF ~IsFile(filePath)
           THEN /\ UNCHANGED <<files, track>>
                /\ last' = DoneF("overwriteFile", filename, "ENOENT", <<>>)
           ELSE /\ files' = Put(createBackup(files, filename), filePath, newContent)
                /\ track' = [track EXCEPT ![filename] =
                                Mutated(@, files[filePath], newContent)]
                /\ last' = DoneF("overwriteFile", filename, "ok", <<files[filePath]>>)
        /\ UNCHANGED <<dirs, dbVars>>

clearFile(filename) ==
    LET filePath == getFilePath(filename)
    IN  /\ ops < MaxOps
        /\ ops' = ops + 1
        /\ IF ~CanWrite(filePath)
           THEN /\ UNCHANGED <<files, track>>
                /\ last' = DoneF("clearFile", filename, "ENOENT", <<>>)
           ELSE /\ files' = Put(files, filePath, <<>>)
                /\ track' = [track EXCEPT ![filename] = Written(@, Was(filePath), <<>>)]
                /\ last' = DoneF("clearFile", filename, "ok", Was(filePath))
        /\ UNCHANGED <<dirs, dbVars>>

\* fetch(url) fails or answers with a JSON body, which is written to the file
fetchApiData(filename, ok, body) ==
    LET filePath == getFilePath(filename)
    IN  /\ ops < MaxOps
        /\ ops' = ops + 1
        /\ IF ~ok
           THEN /\ UNCHANGED <<files, track>>
                /\ last' = DoneF("fetchApiData", filename, "http", Was(filePath))
           ELSE IF ~CanWrite(filePath)
           THEN /\ UNCHANGED <<files, track>>
                /\ last' = DoneF("fetchApiData", filename, "ENOENT", <<>>)
           ELSE /\ files' = Put(files, filePath, body)
                /\ track' = [track EXCEPT ![filename] = Written(@, Was(filePath), body)]
                /\ last' = DoneF("fetchApiData", filename, "ok", Was(filePath))
        /\ UNCHANGED <<dirs, dbVars>>

\* a revert counts for the created-mutated-reverted scenario whether or not
\* it finds a backup
Reverted(t, was, new) ==
    [t EXCEPT !.stage = IF @ \in {"mutated", "reverted"} THEN "reverted" ELSE "none",
              !.any = IF was # <<>> /\ new # was THEN was ELSE @,
              !.changed = @ \/ (was # <<>> /\ new # was)]

\* a revert that opens the live file for writing before it looks for the
\* backup: without a backup the live file is left empty
revertFileTruncating(filename) ==
    LET originalPath == getFilePath(filename)
        backupPath == BackupPath(filename)
    IN  /\ ops < MaxOps
        /\ ops' = ops + 1
        /\ IF ~CanWrite(originalPath)
           THEN /\ UNCHANGED files
                /\ last' = DoneF("revertFile", filename, "nobackup", Was(originalPath))
           ELSE IF ~IsFile(backupPath)
           THEN /\ files' = Put(files, originalPath, <<>>)
                /\ last' = DoneF("revertFile", filename, "nobackup", Was(originalPath))
           ELSE /\ files' = Put(files, originalPath, files[backupPath])
                /\ last' = DoneF("revertFile", filename, "ok", Was(originalPath))
        /\ track' = [track EXCEPT ![filename] =
                        Reverted(@, Was(originalPath), Was(originalPath))]
        /\ UNCHANGED <<dirs, dbVars>>

revertFile(filename) ==
    LET originalPath == getFilePath(filename)
        backupPath == BackupPath(filename)
    IN  /\ ops < MaxOps
        /\ ops' = ops + 1
        /\ IF ~IsFile(backupPath) \/ ~CanWrite(originalPath)
           THEN /\ UNCHANGED files
                /\ track' = [track EXCEPT ![filename] =
                                Reverted(@, Was(originalPath), Was(originalPath))]
                /\ last' = DoneF("revertFile", filename, "nobackup", Was(originalPath))
           ELSE /\ files' = Put(files, originalPath, files[backupPath])
                /\ track' = [track EXCEPT ![filename] =
                                Reverted(@, Was(originalPath), <<files[backupPath]>>)]
                /\ last' = DoneF("revertFile", filename, "ok", Was(originalPath))
        /\ UNCHANGED <<dirs, dbVars>>

createFolder(folderName) ==
    /\ ops < MaxOps
    /\ ops' = ops + 1
    /\ dirs' = dirs \cup MkdirP(getFilePath(folderName))
    /\ last' = DoneF("createFolder", folderName, "ok", <<>>)
    /\ UNCHANGED <<files, track, dbVars>>

\* on startup only my_files itself is created
InitBackup ==
    /\ files = <<>>
    /\ dirs = {}
    /\ fileRecs = <<>>
    /\ folderRecs = <<>>
    /\ nextId = 1
    /\ walk = <<>>
    /\ ops = 0
    /\ track = [n \in FileNames |-> NoTrack]
    /\ last = Done("boot", Root, "ok", NoPre)

NextBackup ==
    \/ \E n \in FileNames, c \in Contents : createFile(n, c)
    \/ \E n \in FileNames : appendToFile(n, <<>>)
    \/ \E n \in FileNames, o \in OldTexts, t \in NewTexts : replaceText(n, o, t)
    \/ \E n \in FileNames, c \in Contents : overwriteFile(n, c)
    \/ \E n \in FileNames : clearFile(n)
    \/ \E n \in FileNames, ok \in BOOLEAN, b \in FetchBodies : fetchApiData(n, ok, b)
    \/ \E n \in FileNames : revertFile(n)
    \/ \E d \in FolderNames : createFolder(d)

SpecBackup == InitBackup /\ [][NextBackup]_vars

\* ------------------------------------------------------------------------
\* Properties of backup and revert (SpecBackup)
\* ------------------------------------------------------------------------
\* C4: once a file created with content C1 has been mutated by appendToFile,
\* replaceText or overwriteFile and revertFile has been called on it (once or
\* several times), the live file holds exactly C1 and so does the backup.
C4_RevertRestoresCreated ==
    \A n \in FileNames :
        track[n].stage = "reverted" =>
            /\ IsFile(getFilePath(n))
            /\ files[getFilePath(n)] = track[n].c1
            /\ IsFile(BackupPath(n))
            /\ files[BackupPath(n)] = track[n].c1

C6_BackupHoldsPriorBytes ==
    (/\ last.op \in {"appendToFile", "replaceText", "overwriteFile"}
     /\ last.ret = "ok"
     /\ last.was # <<>>)
        => /\ IsFile(BackupPath(last.name))
           /\ files[BackupPath(last.name)] = last.was[1]

\* C18: revertFile of a name that has no backup reports that no backup was
\* found and changes nothing: no file and no directory is created, modified
\* or deleted.
C18_RevertWithoutBackupIsNoOp ==
    [][(ops' = ops + 1 /\ last'.op = "revertFile"
            /\ ~IsFile(BackupPath(last'.name))) =>
            /\ last'.ret = "nobackup"
            /\ files' = files
            /\ dirs' = dirs]_vars

C18_Witness ==
    /\ last.op = "revertFile"
    /\ last.ret = "nobackup"
    /\ ~IsFile(BackupPath(last.name))
    /\ last.was # <<>>
    /\ last.was[1] # <<>>

\* an append, replace or overwrite step: the operations that back up first
EditStep ==
    /\ ops' = ops + 1
    /\ last'.op \in {"appendToFile", "replaceText", "overwriteFile"}

\* the flat backup location of a logical name: its base name under backups
FlatBackupPath(filename) == Join(backupDir, Basename(filename) \o <<".bak">>)

IvLen == 16

\* crypto.randomBytes(16) draws one of these
IVs == {[i \in 1..IvLen |-> 0], [i \in 1..IvLen |-> IF i = IvLen THEN 1 ELSE 0]}

\* bitwise exclusive or of two 2-bit bytes
Xor(a, b) == ((a + b) % 2) + 2 * (((a \div 2) + (b \div 2)) % 2)

\* aes-256-ctr under the fixed key: byte i of the key stream of an IV
KeyStream(iv, i) == (3 * iv[IvLen] + i) % 4

\* cipher.update(input) + cipher.final(): the same transformation deciphers
Ctr(iv, bytes) == [i \in 1..Len(bytes) |-> Xor(bytes[i], KeyStream(iv, i))]

\* String.replace(tok, ''): the first occurrence only
RemoveFirst(p, tok) ==
    LET S == {i \in 1..Len(p) : p[i] = tok}
    IN  IF S = {} THEN p
        ELSE LET k == CHOOSE i \in S : \A j \in S : i <= j
             IN  SubSeq(p, 1, k - 1) \o SubSeq(p, k + 1, Len(p))

A_enc_txt == <<"a", ".enc", ".txt">>
PlainNames == {A_txt, A_enc_txt}
Enc(name) == name \o <<".enc">>
CryptoNames == PlainNames \cup {Enc(n) : n \in PlainNames}
Plaintexts == {<<>>, <<1>>, <<2, 3>>}

NoRound == [enc |-> <<>>]

\* FileOps.create of the plain file manager
FileOps_create(filename, content) ==
    LET filePath == resolve(filename)
    IN  /\ ops < MaxOps
        /\ ops' = ops + 1
        /\ dirs' = IF Dirname(filePath) = Root THEN dirs ELSE dirs \cup MkdirP(Dirname(filePath))
        /\ files' = Put(files, filePath, content)
        /\ track' = NoRound
        /\ last' = Done("create", filename, "ok", NoPre)
        /\ UNCHANGED dbVars

AdvancedOps_encrypt(filename, iv) ==
    LET filePath == resolve(filename)
        input == files[filePath]
        outputBuffer == iv \o Ctr(iv, input)
    IN  /\ ops < MaxOps
        /\ ops' = ops + 1
        /\ IF ~IsFile(filePath)
           THEN /\ UNCHANGED files
                /\ track' = NoRound
                /\ last' = Done("encrypt", filename, "ENOENT", NoPre)
           ELSE /\ files' = Drop(Put(files, Enc(filePath), outputBuffer), filePath)
                /\ track' = [enc |-> <<[name |-> filename, bytes |-> input]>>]
                /\ last' = Done("encrypt", filename, "ok", NoPre)
        /\ UNCHANGED <<dirs, dbVars>>

\* last.was names the encrypt this decrypt undoes, when it directly follows
\* encrypt(f) and is called on f + '.enc'
AdvancedOps_decrypt(filename) ==
    LET filePath == resolve(filename)
        fileData == files[filePath]
        iv == SubSeq(fileData, 1, IvLen)
        decrypted == Ctr(iv, SubSeq(fileData, IvLen + 1, Len(fileData)))
        originalName == RemoveFirst(filePath, ".enc")
        round == IF track.enc # <<>> /\ filename = Enc(track.enc[1].name)
                 THEN track.enc ELSE <<>>
    IN  /\ ops < MaxOps
        /\ ops' = ops + 1
        /\ track' = NoRound
        /\ IF ~EndsWith(filename, ".enc")
           THEN /\ UNCHANGED files
                /\ last' = DoneF("decrypt", filename, "notenc", round)
           ELSE IF ~IsFile(filePath)
           THEN /\ UNCHANGED files
                /\ last' = DoneF("decrypt", filename, "ENOENT", round)
           ELSE IF Len(fileData) < IvLen
           THEN /\ UNCHANGED files
                /\ last' = DoneF("decrypt", filename, "badiv", round)
           ELSE /\ files' = Drop(Put(files, originalName, decrypted), filePath)
                /\ last' = DoneF("decrypt", filename, "ok", round)
        /\ UNCHANGED <<dirs, dbVars>>

InitCrypto ==
    /\ files = <<>>
    /\ dirs = {backupDir}
    /\ fileRecs = <<>>
    /\ folderRecs = <<>>
    /\ nextId = 1
    /\ walk = <<>>
    /\ ops = 0
    /\ track = NoRound
    /\ last = Done("boot", Root, "ok", NoPre)

NextCrypto ==
    \/ \E n \in PlainNames, c \in Plaintexts : FileOps_create(n, c)
    \/ \E n \in CryptoNames, iv \in IVs : AdvancedOps_encrypt(n, iv)
    \/ \E n \in CryptoNames : AdvancedOps_decrypt(n)

SpecCrypto == InitCrypto /\ [][NextCrypto]_vars

\* C7: a decrypt(f + '.enc') that directly follows encrypt(f) of a file with
\* bytes B leaves the plaintext file f with exactly the bytes B and no
\* envelope f + '.enc'.
C7_EncryptDecryptRoundTrip ==
    (last.op = "decrypt" /\ last.was # <<>>) =>
        LET f == resolve(last.was[1].name)
        IN  /\ IsFile(f)
            /\ files[f] = last.was[1].bytes
            /\ ~IsFile(Enc(f))

\* C14: no name is on disk both as plaintext f and as envelope f + '.enc'.
C14_NeverBothForms ==
    \A n \in PlainNames : ~(IsFile(resolve(n)) /\ IsFile(Enc(resolve(n))))

\* C16: encrypt of a name that ends with '.enc' fails: it writes no file and
\* leaves the named file in place unchanged.
C16_EncryptRejectsEnvelope ==
    [][(ops' = ops + 1 /\ last'.op = "encrypt" /\ EndsWith(last'.name, ".enc")) =>
            /\ files' = files
            /\ last'.ret # "ok"]_vars

\* C17: decrypt of a name whose last component suffix is not '.enc' fails as
\* not encrypted, and no file or directory is created, modified or deleted.
C17_DecryptRequiresEnc ==
    [][(ops' = ops + 1 /\ last'.op = "decrypt"
            /\ last'.name[Len(last'.name)] # ".enc") =>
            /\ last'.ret = "notenc"
            /\ files' = files
            /\ dirs' = dirs]_vars

C17_Witness ==
    /\ last.op = "decrypt"
    /\ last.ret = "notenc"
    /\ IsFile(resolve(last.name))
    /\ \E i \in 1..Len(last.name) : last.name[i] = ".enc"

\* ------------------------------------------------------------------------
\* encrypt and decrypt one file system call at a time, with calls that fail.
\* walk holds the frame of the running operation: the path it read (src),
\* the path it writes (dest), the bytes it writes (out), and whose content
\* this is (the logical file and its plaintext bytes)
\* ------------------------------------------------------------------------
CodecFrame(op, src, dest, out, logical, plain) ==
    [op |-> op, pc |-> "writeFile", src |-> src, dest |-> dest, out |-> out,
     logical |-> logical, plain |-> plain]

Running(op, filename, frame) ==
    [Done(op, filename, "running", NoPre) EXCEPT
        !.was = <<[f |-> frame.logical, bytes |-> frame.plain]>>]

\* encrypt up to and including fs.readFile
encrypt_readFile(filename, iv) ==
    LET filePath == resolve(filename)
        input == files[filePath]
        frame == CodecFrame("encrypt", filePath, Enc(filePath), iv \o Ctr(iv, input),
                            filePath, input)
    IN  /\ Idle
        /\ ops < MaxOps
        /\ ops' = ops + 1
        /\ IF ~IsFile(filePath)
           THEN /\ UNCHANGED walk
                /\ last' = Done("encrypt", filename, "ENOENT", NoPre)
           ELSE /\ walk' = <<frame>>
                /\ last' = Running("encrypt", filename, frame)
        /\ UNCHANGED <<files, dirs, fileRecs, folderRecs, nextId, track>>

\* decrypt up to and including the computation of originalName
decrypt_readFile(filename) ==
    LET filePath == resolve(filename)
        fileData == files[filePath]
        iv == SubSeq(fileData, 1, IvLen)
        decrypted == Ctr(iv, SubSeq(fileData, IvLen + 1, Len(fileData)))
        frame == CodecFrame("decrypt", filePath, RemoveFirst(filePath, ".enc"), decrypted,
                            SubSeq(filePath, 1, Len(filePath) - 1), decrypted)
    IN  /\ Idle
        /\ ops < MaxOps
        /\ ops' = ops + 1
        /\ IF ~EndsWith(filename, ".enc")
           THEN /\ UNCHANGED walk
                /\ last' = Done("decrypt", filename, "notenc", NoPre)
           ELSE IF ~IsFile(filePath)
           THEN /\ UNCHANGED walk
                /\ last' = Done("decrypt", filename, "ENOENT", NoPre)
           ELSE IF Len(fileData) < IvLen
           THEN /\ UNCHANGED walk
                /\ last' = Done("decrypt", filename, "badiv", NoPre)
           ELSE /\ walk' = <<frame>>
                /\ last' = Running("decrypt", filename, frame)
        /\ UNCHANGED <<files, dirs, fileRecs, folderRecs, nextId, track>>

\* await fs.writeFile(dest, out): it succeeds, or it rejects and the operation
\* ends there; a rejected write may have truncated the destination already
codec_writeFile(ok, truncated) ==
    /\ ~Idle
    /\ Top.pc = "writeFile"
    /\ IF ok /\ CanWrite(Top.dest)
       THEN /\ files' = Put(files, Top.dest, Top.out)
            /\ walk' = <<[Top EXCEPT !.pc = "unlink"]>>
            /\ UNCHANGED last
       ELSE /\ files' = IF truncated /\ CanWrite(Top.dest)
                         THEN Put(files, Top.dest, <<>>) ELSE files
            /\ walk' = <<>>
            /\ last' = [last EXCEPT !.ret = "EIO"]
    /\ UNCHANGED <<dirs, fileRecs, folderRecs, nextId, ops, track>>

\* await fs.unlink(src): reached only after the write went through
codec_unlink(ok) ==
    /\ ~Idle
    /\ Top.pc = "unlink"
    /\ files' = IF ok /\ Top.src \in DOMAIN files THEN Drop(files, Top.src) ELSE files
    /\ walk' = <<>>
    /\ last' = [last EXCEPT !.ret = IF ok /\ Top.src \in DOMAIN files THEN "ok" ELSE "EPERM"]
    /\ UNCHANGED <<dirs, fileRecs, folderRecs, nextId, ops, track>>

NextSteps ==
    \/ \E n \in PlainNames, c \in Plaintexts : Idle /\ FileOps_create(n, c)
    \/ \E n \in CryptoNames, iv \in IVs : encrypt_readFile(n, iv)
    \/ \E n \in CryptoNames : decrypt_readFile(n)
    \/ \E ok, truncated \in BOOLEAN : codec_writeFile(ok, truncated)
    \/ \E ok \in BOOLEAN : codec_unlink(ok)

SpecSteps == InitCrypto /\ [][NextSteps]_vars

\* the plaintext file f holds the bytes, or the envelope f + '.enc' holds
\* them enciphered behind its IV
HoldsContent(f, bytes) ==
    \/ IsFile(f) /\ files[f] = bytes
    \/ /\ IsFile(Enc(f))
       /\ Len(files[Enc(f)]) >= IvLen
       /\ Ctr(SubSeq(files[Enc(f)], 1, IvLen),
              SubSeq(files[Enc(f)], IvLen + 1, Len(files[Enc(f)]))) = bytes

\* C15 (SpecSteps): at every step of an encrypt or decrypt of the logical
\* file f, whether its calls succeed or fail, the plaintext file f or the
\* envelope f + '.enc' holds the content of f.
C15_ContentNeverLost ==
    (last.op \in {"encrypt", "decrypt"} /\ last.was # <<>>) =>
        HoldsContent(last.was[1].f, last.was[1].bytes)

\* C28 (SpecCrypto): a decrypt that went through has left the plaintext at the
\* envelope's path without its trailing '.enc'.
C28_DecryptWritesOriginalName ==
    (last.op = "decrypt" /\ last.ret = "ok") =>
        IsFile(SubSeq(resolve(last.name), 1, Len(resolve(last.name)) - 1))

\* ------------------------------------------------------------------------
\* The plain file manager as the shell reaches it (module.exports)
\* ------------------------------------------------------------------------
Up_A_txt == <<"..", Sep, "a", ".txt">>
Sub_Up_A_txt == <<"sub", Sep, "..", Sep, "a", ".txt">>
ShellNames == {A_txt, Sub_A_txt, Up_A_txt, Sub_Up_A_txt}

\* DirOps.create: fs.mkdir(resolve(name), {recursive: true}); a second
\* argument is not looked at (last.was keeps it)
DirOps_create(name, content) ==
    LET target == resolve(name)
    IN  /\ Ready
        /\ ops' = ops + 1 /\ UNCHANGED track
        /\ IF IsFile(target)
           THEN /\ UNCHANGED dirs
                /\ last' = DoneF("create", name, "EEXIST", <<content>>)
           ELSE IF \E d \in MkdirP(target) : IsFile(d)
           THEN /\ UNCHANGED dirs
                /\ last' = DoneF("create", name, "ENOTDIR", <<content>>)
           ELSE /\ dirs' = dirs \cup MkdirP(target)
                /\ last' = DoneF("create", name, "ok", <<content>>)
        /\ UNCHANGED <<files, dbVars>>

\* AdvancedOps.backup of the plain file manager
AdvancedOps_backup(f, filename) ==
    LET src == resolve(filename)
        dest == resolveBackup(filename)
    IN  IF src \in DOMAIN f /\ CanWrite(dest) THEN Put(f, dest, f[src]) ELSE f

\* {...FileOps, ...DirOps, ...}: of two operations with one name the later
\* spread wins, so create and delete are those of DirOps (DirOps.delete is
\* the fs.rm of DirOps_delete); append is the one of FileOps
exports_create(name, content) == DirOps_create(name, content)

exports_delete(name) == DirOps_delete(name)

exports_append(filename, content) ==
    LET filePath == resolve(filename)
        backed == AdvancedOps_backup(files, filename)
        old == IF IsFile(filePath) THEN files[filePath] ELSE <<>>
        new == old \o <<NL>> \o content
    IN  /\ Ready
        /\ ops' = ops + 1 /\ UNCHANGED track
        /\ Len(new) <= MaxLen
        /\ IF IsDir(filePath)
           THEN /\ files' = backed
                /\ last' = DoneF("append", filename, "EISDIR", <<>>)
           ELSE IF ~CanWrite(filePath)
           THEN /\ files' = backed
                /\ last' = DoneF("append", filename, "ENOENT", <<>>)
           ELSE /\ files' = Put(backed, filePath, new)
                /\ last' = DoneF("append", filename, "ok", Was(filePath))
        /\ UNCHANGED <<dirs, dbVars>>

\* on boot baseDir and backupDir are made; the directory that holds baseDir
\* is the one of the module
InitPlain ==
    /\ files = <<>>
    /\ dirs = {backupDir, Up}
    /\ fileRecs = <<>>
    /\ folderRecs = <<>>
    /\ nextId = 1
    /\ walk = <<>>
    /\ ops = 0
    /\ track = NoRound
    /\ last = Done("boot", Root, "ok", NoPre)

NextPlain ==
    \/ \E n \in ShellNames \cup DirNames, c \in Contents : exports_create(n, c)
    \/ \E n \in ShellNames \cup DirNames : exports_delete(n)
    \/ \E n \in ShellNames : exports_append(n, <<>>)

SpecPlain == InitPlain /\ [][NextPlain]_vars

\* C21: an operation whose logical name resolves to a path outside the
\* storage root is rejected with InvalidPath and touches nothing on disk.
C21_EscapingNameRejected ==
    [][(ops' = ops + 1 /\ Outside(resolve(last'.name))) =>
            /\ last'.ret = "InvalidPath"
            /\ files' = files
            /\ dirs' = dirs]_vars

\* C29: the create the shell calls with a name and a content leaves a
\* regular file with that content at resolve(name), and the delete it calls
\* on a name that does not exist reports ENOENT ('Target not found').
C29_ShellCreateMakesFile ==
    [][(ops' = ops + 1) =>
            /\ (last'.op = "create" /\ last'.name \in ShellNames) =>
                   /\ resolve(last'.name) \in DOMAIN files'
                   /\ files'[resolve(last'.name)] = last'.was[1]
            /\ (last'.op = "delete" /\ ~Accessible(resolve(last'.name))) =>
                   last'.ret = "ENOENT"]_vars

====
